---- MODULE Spec2Model ----
(***************************************************************************)
(* A model of src/lib/db.ts of learn-v1: the memoized database connection  *)
(* (connectDB), the prompt validator (validatePrompt), the roadmap         *)
(* generator (generateRoadmap) with its response repair, the development   *)
(* fallback (createFallbackNodes) and the tree layout                      *)
(* (calculateNodePosition).                                                *)
(*                                                                         *)
(* Representation of JavaScript values.                                    *)
(*   A string is a sequence of characters; a character is a one-letter     *)
(*   TLA+ string, except "I_DOT" (U+0130) and "DOT_ABOVE" (U+0307), the    *)
(*   one capital letter whose lower case is two UTF-16 units.              *)
(*   A scalar that is compared with === is a record [t, n, h, s]:          *)
(*     t = "undef" | "null" | "num" | "str";                               *)
(*     "num": the number n + h/2 (h is 0 or 1);                            *)
(*     "str": the text s, followed by the decimal digits of n when n >= 0  *)
(*            (so `node_${k}` is [s |-> "node_", n |-> k]).                *)
(*   A title or description line is a sequence of tokens [k, n, c]:        *)
(*     "D": the digits of n followed by "."   (what /^\d+\./ matches);     *)
(*     "N": the digits of n;   "SP": one blank;   "W": the text c, which   *)
(*     starts with no digit and no blank.                                  *)
(***************************************************************************)
EXTENDS Integers, Sequences, FiniteSets, TLC

VARIABLES
    vPrompt,        \* validatePrompt: the argument
    vVerdict,       \* validatePrompt: "pending", "ok" or the message thrown
    pc,             \* generateRoadmap: "idle", "awaiting", "returned", "failed"
    env,            \* process.env: [apiKey, mode]
    args,           \* generateRoadmap's arguments [prompt, level, roadmapType]
    requests,       \* the bodies handed to axios.post, in order
    response,       \* what the service answered to the request
    roadmap,        \* parsedResponse.nodes, the raw elements
    result,         \* the list generateRoadmap returned
    error,          \* the message of the Error generateRoadmap threw
    fallbackCalled, \* whether createFallbackNodes was called
    cached,         \* connectDB: global.mongoose, [conn, promise]
    attempts,       \* mongoose.connect promises: attempt id -> state
    callers,        \* connectDB invocations: caller -> position
    microtasks,     \* the microtask queue: callers to resume, in order
    layTotal,       \* layout: the number of nodes being laid out
    layPositions    \* layout: the positions of the indices 0, 1, ... so far

valVars == <<vPrompt, vVerdict>>
genVars == <<pc, env, args, requests, response, roadmap, result, error, fallbackCalled>>
dbVars == <<cached, attempts, callers, microtasks>>
layVars == <<layTotal, layPositions>>
vars == <<vPrompt, vVerdict, pc, env, args, requests, response, roadmap, result,
          error, fallbackCalled, cached, attempts, callers, microtasks,
          layTotal, layPositions>>

--------------------------------------------------------------------------
(* Strings *)

Repeat(c, k) == [i \in 1..k |-> c]

Uppers == <<"A","B","C","D","E","F","G","H","I","J","K","L","M",
            "N","O","P","Q","R","S","T","U","V","W","X","Y","Z">>
Lowers == <<"a","b","c","d","e","f","g","h","i","j","k","l","m",
            "n","o","p","q","r","s","t","u","v","w","x","y","z">>

\* String.prototype.toLowerCase on one character
LowerChar(c) ==
    IF \E i \in 1..Len(Uppers) : Uppers[i] = c
    THEN <<Lowers[CHOOSE i \in 1..Len(Uppers) : Uppers[i] = c]>>
    ELSE IF c = "I_DOT" THEN <<"i", "DOT_ABOVE">>
    ELSE <<c>>

\* String.prototype.toLowerCase: the characters' lower cases, in order
\* (computed by halves)
RECURSIVE toLowerCase(_)
toLowerCase(str) ==
    IF str = <<>> THEN <<>>
    ELSE IF Len(str) = 1 THEN LowerChar(str[1])
    ELSE LET half == Len(str) \div 2 IN
         toLowerCase(SubSeq(str, 1, half))
            \o toLowerCase(SubSeq(str, half + 1, Len(str)))

IsSpace(c) == c = " "

RECURSIVE TrimStart(_)
TrimStart(str) ==
    IF str # <<>> /\ IsSpace(Head(str)) THEN TrimStart(Tail(str)) ELSE str

RECURSIVE TrimEnd(_)
TrimEnd(str) ==
    IF str # <<>> /\ IsSpace(str[Len(str)])
    THEN TrimEnd(SubSeq(str, 1, Len(str) - 1))
    ELSE str

\* String.prototype.trim
trim(str) == TrimEnd(TrimStart(str))

\* String.prototype.includes
includes(str, sub) ==
    \E i \in 0..(Len(str) - Len(sub)) : SubSeq(str, i + 1, i + Len(sub)) = sub

--------------------------------------------------------------------------
(* validatePrompt *)

invalidKeywords == <<
    <<"w","e","a","t","h","e","r">>,
    <<"s","c","o","r","e">>,
    <<"n","e","w","s">>,
    <<"t","o","d","a","y">>,
    <<"c","u","r","r","e","n","t">>,
    <<"c","a","l","c","u","l","a","t","e">>,
    <<"w","h","a","t"," ","i","s">>,
    <<"w","h","o"," ","i","s">>,
    <<"w","h","e","r","e"," ","i","s">>,
    <<"w","h","e","n"," ","i","s">>,
    <<"w","h","y"," ","i","s">>,
    <<"h","o","w"," ","t","o"," ","f","i","x">>,
    <<"d","e","b","u","g">>,
    <<"e","r","r","o","r">>,
    <<"p","r","o","b","l","e","m">> >>

MinPromptLen == 3
MaxPromptLen == 200

TooShortMsg == "Please enter a longer topic description."
TooLongMsg == "Please enter a shorter topic description."
KeywordMsg == "Please enter a topic you want to learn about, rather than a question or problem."

\* line 89 with the toLowerCase dropped
lowerCasePromptNoLower(prompt) == trim(prompt)

lowerCasePrompt(prompt) == trim(toLowerCase(prompt))

matchedKeyword(p) ==
    \E i \in 1..Len(invalidKeywords) : includes(p, invalidKeywords[i])

\* "ok" when validatePrompt returns true, the thrown message otherwise
validatePrompt(prompt) ==
    LET p == lowerCasePrompt(prompt) IN
    IF Len(p) < MinPromptLen THEN TooShortMsg
    ELSE IF Len(p) > MaxPromptLen THEN TooLongMsg
    ELSE IF matchedKeyword(p) THEN KeywordMsg
    ELSE "ok"

--------------------------------------------------------------------------
(* JavaScript values *)

Undef == [t |-> "undef", n |-> 0, h |-> 0, s |-> ""]
Null == [t |-> "null", n |-> 0, h |-> 0, s |-> ""]
Num(k) == [t |-> "num", n |-> k, h |-> 0, s |-> ""]
NumHalf(k) == [t |-> "num", n |-> k, h |-> 1, s |-> ""]
Str(s) == [t |-> "str", n |-> -1, h |-> 0, s |-> s]

\* `node_${k}`
NodeId(k) == [t |-> "str", n |-> k, h |-> 0, s |-> "node_"]

\* ToBoolean
Truthy(v) ==
    CASE v.t = "num" -> v.n # 0 \/ v.h # 0
      [] v.t = "str" -> v.s # "" \/ v.n >= 0
      [] OTHER -> FALSE

\* a - b < 0, for finite numbers
Less(a, b) == a.n < b.n \/ (a.n = b.n /\ a.h < b.h)

D(n) == [k |-> "D", n |-> n, c |-> <<>>]
N(n) == [k |-> "N", n |-> n, c |-> <<>>]
SP == [k |-> "SP", n |-> 0, c |-> <<>>]
W(c) == [k |-> "W", n |-> 0, c |-> c]

\* `${v}.` for a number v
NumDot(v) ==
    IF v.h = 0
    THEN IF v.n >= 0 THEN <<D(v.n)>> ELSE <<W(<<"-">>), D(-v.n)>>
    ELSE IF v.n >= 0 THEN <<D(v.n), D(5)>> ELSE <<W(<<"-">>), D(-v.n - 1), D(5)>>

\* title.match(/^\d+\./)
MatchesPrefix(title) == title # <<>> /\ title[1].k = "D"

RECURSIVE DropSpaces(_)
DropSpaces(title) ==
    IF title # <<>> /\ title[1].k = "SP" THEN DropSpaces(Tail(title)) ELSE title

\* title.replace(/^\d+\.\s*/, '')
StripPrefix(title) ==
    IF MatchesPrefix(title) THEN DropSpaces(Tail(title)) ELSE title

--------------------------------------------------------------------------
(* calculateNodePosition *)

VERTICAL_SPACING == 100
MIN_NODE_SPACING == 140
TOP_MARGIN == 50
LEVEL_PADDING == 50

RECURSIVE Pow(_, _)
Pow(b, e) == IF e = 0 THEN 1 ELSE b * Pow(b, e - 1)

\* Math.floor(Math.log2(k)), k >= 1
RECURSIVE Log2Floor(_)
Log2Floor(k) == IF k < 2 THEN 0 ELSE 1 + Log2Floor(k \div 2)

Min(a, b) == IF a <= b THEN a ELSE b
Abs(a) == IF a < 0 THEN -a ELSE a

RECURSIVE Gcd(_, _)
Gcd(a, b) == IF b = 0 THEN a ELSE Gcd(b, a % b)

\* the fraction num/den in lowest terms, den > 0
Frac(num, den) ==
    LET g == Gcd(Abs(num), den) IN [num |-> num \div g, den |-> den \div g]

\* lines 391-393 with the two signs exchanged: the right half is moved left
calculateNodePositionBiasSwapped(index, total) ==
    LET level == Log2Floor(index + 1)
        positionInLevel == index - (Pow(2, level) - 1)
        nodesInLevel == Min(Pow(2, level), total - (Pow(2, level) - 1))
        baseWidth == MIN_NODE_SPACING * Pow(2, level)
        den == (nodesInLevel + 1) * Pow(2, level)
        base == (positionInLevel + 1) * baseWidth * Pow(2, level)
                - (baseWidth \div 2) * den
        isRightSubtree == 2 * positionInLevel >= nodesInLevel
        spread == LEVEL_PADDING * Pow(3, level) * (nodesInLevel + 1)
        num == IF level > 0
               THEN IF isRightSubtree THEN base - spread ELSE base + spread
               ELSE base
    IN [x |-> Frac(num, den), y |-> level * VERTICAL_SPACING + TOP_MARGIN]

\* x is the exact rational value of the expression of lines 380-394: over the
\* denominator (nodesInLevel + 1) * 2^level,
\*   (positionInLevel + 1) * baseWidth / (nodesInLevel + 1) - baseWidth / 2
\*   +/- LEVEL_PADDING * 1.5^level
calculateNodePosition(index, total) ==
    LET level == Log2Floor(index + 1)
        positionInLevel == index - (Pow(2, level) - 1)
        nodesInLevel == Min(Pow(2, level), total - (Pow(2, level) - 1))
        baseWidth == MIN_NODE_SPACING * Pow(2, level)
        den == (nodesInLevel + 1) * Pow(2, level)
        base == (positionInLevel + 1) * baseWidth * Pow(2, level)
                - (baseWidth \div 2) * den
        isRightSubtree == 2 * positionInLevel >= nodesInLevel
        spread == LEVEL_PADDING * Pow(3, level) * (nodesInLevel + 1)
        num == IF level > 0
               THEN IF isRightSubtree THEN base + spread ELSE base - spread
               ELSE base
    IN [x |-> Frac(num, den), y |-> level * VERTICAL_SPACING + TOP_MARGIN]

--------------------------------------------------------------------------
(* generateRoadmap: the per-element processing of lines 242-287 *)

\* node.id of a raw element (undefined on a primitive)
RawId(n) == IF n.t = "obj" THEN n.id ELSE Undef

\* roadmap.some(n => n.id === childId): "true", "false", or "throw" when the
\* scan reaches a null element (n.id on null) before a match
RECURSIVE SomeHasId(_, _, _)
SomeHasId(rm, childId, i) ==
    IF i > Len(rm) THEN "false"
    ELSE IF rm[i].t = "null" THEN "throw"
    ELSE IF RawId(rm[i]) = childId THEN "true"
    ELSE SomeHasId(rm, childId, i + 1)

\* processedNode.children.filter(childId => roadmap.some(...))
ValidChildren(children, rm) ==
    SelectSeq(children, LAMBDA c : SomeHasId(rm, c, 1) = "true")

ChildrenOf(node) ==
    IF node.t = "obj" /\ node.children.t = "arr" THEN node.children.a ELSE <<>>

TitleTruthy(title) ==
    \/ title.t = "str" /\ title.tok # <<>>
    \/ title.t = "num" /\ title.n # 0

\* whether the try block of lines 243-271 throws on this element
ProcessThrows(node, rm) ==
    \/ node.t = "null"                                      \* node.id
    \/ node.t = "obj" /\ TitleTruthy(node.title)
                      /\ node.title.t # "str"               \* title.match
    \/ \E i \in 1..Len(ChildrenOf(node)) :
            SomeHasId(rm, ChildrenOf(node)[i], 1) = "throw" \* n.id

\* lines 275-285
DefaultNode(index, total) ==
    [id |-> NodeId(index + 1),
     title |-> <<D(index + 1), SP, W(<<"Topic">>), SP, N(index + 1)>>,
     description |-> << <<W(<<"Content to be added">>)>> >>,
     children |-> <<>>,
     sequence |-> Num(index + 1),
     timeNeeded |-> Num(1),
     completed |-> FALSE,
     timeConsumed |-> Num(0),
     position |-> calculateNodePosition(index, total)]

\* lines 245-271, for an element on which they do not throw
RepairedNode(node, index, rm) ==
    LET obj == node.t = "obj"
        id == IF obj /\ Truthy(node.id) THEN node.id ELSE NodeId(index + 1)
        title0 == IF obj /\ TitleTruthy(node.title) THEN node.title.tok
                  ELSE <<D(index + 1), SP, W(<<"Untitled Node">>)>>
        description0 == IF obj /\ node.description.t = "arr"
                        THEN node.description.a ELSE <<>>
        sequence == IF obj /\ node.sequence.t = "num"
                    THEN node.sequence ELSE Num(index + 1)
        timeNeeded == IF obj /\ node.timeNeeded.t = "num"
                      THEN node.timeNeeded ELSE Num(0)
    IN [id |-> id,
        title |-> IF ~MatchesPrefix(title0)
                  THEN NumDot(sequence) \o <<SP>> \o StripPrefix(title0)
                  ELSE title0,
        description |-> IF Len(description0) = 0
                        THEN << <<W(<<"No description available">>)>> >>
                        ELSE description0,
        children |-> ValidChildren(ChildrenOf(node), rm),
        sequence |-> sequence,
        timeNeeded |-> timeNeeded,
        completed |-> FALSE,
        timeConsumed |-> Num(0),
        position |-> calculateNodePosition(index, Len(rm))]

\* the map callback with the catch branch dropped: the element is skipped
ProcessNodeNoCatch(node, index, rm) ==
    IF ProcessThrows(node, rm) THEN <<>>
    ELSE <<RepairedNode(node, index, rm)>>

\* the map callback of lines 242-287, as the list of what it emits
ProcessNode(node, index, rm) ==
    IF ProcessThrows(node, rm) THEN <<DefaultNode(index, Len(rm))>>
    ELSE <<RepairedNode(node, index, rm)>>

RECURSIVE MapFrom(_, _)
MapFrom(rm, i) ==
    IF i > Len(rm) THEN <<>>
    ELSE ProcessNode(rm[i], i - 1, rm) \o MapFrom(rm, i + 1)

\* roadmap.map(...), lines 242-287
processedNodes(rm) == MapFrom(rm, 1)

\* insert node after the elements that do not compare greater (stable)
RECURSIVE Insert(_, _)
Insert(sorted, node) ==
    IF sorted = <<>> THEN <<node>>
    ELSE IF Less(node.sequence, Head(sorted).sequence)
         THEN <<node>> \o sorted
         ELSE <<Head(sorted)>> \o Insert(Tail(sorted), node)

\* processedNodes.sort((a, b) => a.sequence - b.sequence), a stable sort
RECURSIVE SortBySequence(_)
SortBySequence(nodes) ==
    IF nodes = <<>> THEN <<>>
    ELSE Insert(SortBySequence(SubSeq(nodes, 1, Len(nodes) - 1)), nodes[Len(nodes)])

\* line 292 with the sequence left as it was
RestampKeep(node, index) ==
    [node EXCEPT !.title = <<D(index + 1), SP>> \o StripPrefix(node.title)]

\* lines 292-293
Restamp(node, index) ==
    [node EXCEPT !.sequence = Num(index + 1),
                 !.title = <<D(index + 1), SP>> \o StripPrefix(node.title)]

\* lines 289-294
SortAndRestamp(nodes) ==
    LET sorted == SortBySequence(nodes)
    IN [i \in 1..Len(sorted) |-> Restamp(sorted[i], i - 1)]

--------------------------------------------------------------------------
(* createFallbackNodes *)

\* the decimal digits of k >= 0, most significant first
RECURSIVE Digits(_)
Digits(k) == IF k < 10 THEN <<k>> ELSE Digits(k \div 10) \o <<k % 10>>

\* a <= b on strings of digits: the comparison by UTF-16 code units
RECURSIVE StrLeq(_, _)
StrLeq(a, b) ==
    IF a = <<>> THEN TRUE
    ELSE IF b = <<>> THEN FALSE
    ELSE IF Head(a) # Head(b) THEN Head(a) < Head(b)
    ELSE StrLeq(Tail(a), Tail(b))

nodeCountOf(level) ==
    IF level = "beginner" THEN 8 ELSE IF level = "intermediate" THEN 12 ELSE 15

\* line 350: the ids node_(i+2), node_(i+3) whose number, as a string, is
\* <= nodeCount.toString()
FallbackChildren(i, nodeCount) ==
    IF i < nodeCount - 2
    THEN LET kept == SelectSeq(<<i + 2, i + 3>>,
                         LAMBDA k : StrLeq(Digits(k), Digits(nodeCount)))
         IN [j \in 1..Len(kept) |-> NodeId(kept[j])]
    ELSE <<>>

\* rnd[j] is the value of Math.floor(Math.random() * 5) + 1 at a draw
createFallbackNodes(prompt, level, rnd) ==
    LET nodeCount == nodeCountOf(level) IN
    [j \in 1..nodeCount |->
        LET i == j - 1 IN
        [id |-> NodeId(i + 1),
         title |-> <<D(i + 1), SP, W(prompt), SP, W(<<"Topic">>), SP, N(i + 1)>>,
         description |-> <<
            <<W(<<"Learn the basics of">>), SP, W(prompt), SP,
              W(<<"concept">>), SP, N(i + 1)>>,
            <<W(<<"Key areas: Theory, Practice, Application">>)>>,
            <<W(<<"Complete exercises related to">>), SP, W(prompt), SP,
              W(<<"topic">>), SP, N(i + 1)>> >>,
         children |-> FallbackChildren(i, nodeCount),
         sequence |-> Num(i + 1),
         timeNeeded |-> Num(rnd[(i % Len(rnd)) + 1]),
         timeConsumed |-> Num(0),
         completed |-> FALSE,
         position |-> calculateNodePosition(i, nodeCount)]]

--------------------------------------------------------------------------
(* generateRoadmap: the response text and JSON.parse *)

(* The text of the service's answer is a sequence of tokens:               *)
(*   "{" and "}";  " " white space;  "x" prose that is no JSON;            *)
(*   "n" the literal null;  "K" a member key other than "nodes", with its  *)
(*   colon;  "V" the member "nodes": <value>, whose value response.nodes   *)
(*   holds.                                                                *)

StripSpaces(text) == SelectSeq(text, LAMBDA c : ~IsSpace(c))

\* text is a JSON object: {} | {"nodes": v} | {"k": null} | {"k": object}
RECURSIVE IsJsonObject(_)
IsJsonObject(text) ==
    /\ Len(text) >= 2
    /\ text[1] = "{"
    /\ text[Len(text)] = "}"
    /\ LET inner == SubSeq(text, 2, Len(text) - 1) IN
        \/ inner = <<>>
        \/ inner = <<"V">>
        \/ inner = <<"K", "n">>
        \/ Len(inner) >= 3 /\ inner[1] = "K" /\ IsJsonObject(Tail(inner))

\* JSON.parse(text): [ok] FALSE when it throws; else the value's kind and
\* whether it has an own member "nodes"
JSONparse(text) ==
    LET t == StripSpaces(text) IN
    IF t = <<"n">> THEN [ok |-> TRUE, kind |-> "null", hasNodes |-> FALSE]
    ELSE IF IsJsonObject(t)
    THEN [ok |-> TRUE, kind |-> "obj", hasNodes |-> t = <<"{", "V", "}">>]
    ELSE [ok |-> FALSE, kind |-> "none", hasNodes |-> FALSE]

Positions(text, c) == {i \in 1..Len(text) : text[i] = c}
First(S) == CHOOSE i \in S : \A j \in S : i <= j
Last(S) == CHOOSE i \in S : \A j \in S : j <= i

\* text.match(/\{[\s\S]*\}/): the span from the first "{" to the last "}"
\* after it; <<>> when there is no match
jsonMatch(text) ==
    LET opens == Positions(text, "{") IN
    IF opens = {} THEN <<>>
    ELSE LET closes == {i \in Positions(text, "}") : i > First(opens)} IN
         IF closes = {} THEN <<>>
         ELSE SubSeq(text, First(opens), Last(closes))

\* lines 205-227: parse the text, else parse the extracted span
parsedResponse(text) ==
    IF JSONparse(text).ok THEN JSONparse(text)
    ELSE IF jsonMatch(text) # <<>> THEN JSONparse(jsonMatch(text))
    ELSE [ok |-> FALSE, kind |-> "none", hasNodes |-> FALSE]

--------------------------------------------------------------------------
(* generateRoadmap *)

NoKeyMsg == "GROQ_API_KEY is not configured in environment variables"
InvalidResponseMsg == "Invalid response from Groq API"
ParseErrorMsg == "Failed to parse JSON response: "
FormatErrorMsg == "Invalid response format: missing nodes array"
EmptyNodesMsg == "Received empty nodes array from AI service"
BadRequestMsg == "The AI service couldn't process this request. Please try again with different parameters."
AuthFailedMsg == "Authentication failed"
RateLimitMsg == "Too many requests. Please try again later."
GenericMsg == "Failed to generate roadmap"

\* an Error thrown inside the try block: status 0 when it has no response
Thrown(message, status) ==
    [thrown |-> TRUE, message |-> message, status |-> status,
     nodes |-> <<>>, raw |-> <<>>]

Returned(nodes, raw) ==
    [thrown |-> FALSE, message |-> "", status |-> 0, nodes |-> nodes, raw |-> raw]

\* the template literal of lines 125-151, by what it interpolates
roadmapPrompt(prompt, level) ==
    [prompt |-> prompt,
     level |-> level,
     nodes |-> IF level = "beginner" THEN "8-10"
               ELSE IF level = "intermediate" THEN "11-15" ELSE "15-18"]

\* the request body of lines 162-179
RequestBody(prompt, level) ==
    [model |-> "mistral-saba-24b",
     system |-> "systemMessage",
     user |-> roadmapPrompt(prompt, level)]

\* lines 117-123 with the API-key check first
BeforeRequestKeyFirst(prompt, apiKey) ==
    IF ~apiKey THEN NoKeyMsg
    ELSE IF validatePrompt(prompt) # "ok" THEN validatePrompt(prompt)
    ELSE "ok"

\* lines 117-123: "ok", or the message of the Error thrown before the request
BeforeRequest(prompt, apiKey) ==
    IF validatePrompt(prompt) # "ok" THEN validatePrompt(prompt)
    ELSE IF ~apiKey THEN NoKeyMsg
    ELSE "ok"

\* lines 235-237 dropped: an empty nodes array is processed like any other
RepairNodesNoEmptyCheck(nodes) ==
    IF nodes.t # "arr" THEN Thrown(FormatErrorMsg, 0)
    ELSE Returned(SortAndRestamp(processedNodes(nodes.a)), nodes.a)

\* lines 229-296, for a parsed value that has a nodes member
RepairNodes(nodes) ==
    IF nodes.t # "arr" THEN Thrown(FormatErrorMsg, 0)
    ELSE IF Len(nodes.a) = 0 THEN Thrown(EmptyNodesMsg, 0)
    ELSE Returned(SortAndRestamp(processedNodes(nodes.a)), nodes.a)

\* lines 189-296: what the try block does with the service's answer
AfterRequest(resp) ==
    IF resp.kind = "transport" THEN Thrown(resp.message, 0)
    ELSE IF resp.status # 200 THEN Thrown(resp.message, resp.status)
    ELSE IF resp.content.t # "str" \/ resp.content.text = <<>>
    THEN Thrown(InvalidResponseMsg, 0)
    ELSE LET parsed == parsedResponse(trim(resp.content.text)) IN
         IF ~parsed.ok THEN Thrown(ParseErrorMsg, 0)
         ELSE IF parsed.kind = "null" \/ ~parsed.hasNodes \/ resp.nodes.t = "null"
         THEN Thrown(FormatErrorMsg, 0)
         ELSE RepairNodes(resp.nodes)

\* line 318 with the mode test dropped
UseFallbackAlways(status, mode) == status = 400

\* lines 312 and 318: the catch block answers with the fallback nodes
UseFallback(status, mode) == status = 400 /\ mode = "development"

\* lines 328-332 with the 429 case dropped
UserMessageNo429(status, message) ==
    IF status = 400 THEN BadRequestMsg
    ELSE IF status = 401 THEN AuthFailedMsg
    ELSE IF message # "" THEN message ELSE GenericMsg

\* lines 299 and 324-332: the message of the Error the catch block throws
UserMessage(status, message) ==
    IF status = 400 THEN BadRequestMsg
    ELSE IF status = 401 THEN AuthFailedMsg
    ELSE IF status = 429 THEN RateLimitMsg
    ELSE IF message # "" THEN message ELSE GenericMsg

--------------------------------------------------------------------------
(* Inputs of generateRoadmap *)

MaxNodes == 3
RandPeriod == 2

Levels == {"beginner", "intermediate", "advanced"}
RoadmapTypes == {"week-by-week", "topic-wise"}
Modes == {"development", "production", "test"}

GenPrompts == {
    <<"p","y","t","h","o","n">>,
    <<" ","a","b"," ">>,
    <<"D","e","b","u","g"," ","C">> }

TitleUndef == [t |-> "undef", n |-> 0, tok |-> <<>>]
TitleStr(tok) == [t |-> "str", n |-> 0, tok |-> tok]
TitleNum(n) == [t |-> "num", n |-> n, tok |-> <<>>]
Arr(a) == [t |-> "arr", a |-> a]
NotArr == [t |-> "str", a |-> <<>>]
NoArr == [t |-> "undef", a |-> <<>>]
NoNodes == [t |-> "null", a |-> <<>>]

Obj(id, title, description, children, sequence, timeNeeded) ==
    [t |-> "obj", id |-> id, title |-> title, description |-> description,
     children |-> children, sequence |-> sequence, timeNeeded |-> timeNeeded]

\* the element null
ElemNull ==
    [t |-> "null", id |-> Undef, title |-> TitleUndef, description |-> NoArr,
     children |-> NoArr, sequence |-> Undef, timeNeeded |-> Undef]

\* a primitive element such as 5: every property of it is undefined
ElemPrimitive == [ElemNull EXCEPT !.t = "num"]

Line(word) == <<W(<<word>>)>>

\* the raw elements the service's nodes array is drawn from
RawElems == {
    \* well-formed, refers to node_2 and to "X", sequence with a gap
    Obj(NodeId(1), TitleStr(<<D(1), SP, W(<<"A">>)>>), Arr(<<Line("a")>>),
        Arr(<<NodeId(2), Str("X")>>), Num(7), Num(4)),
    \* well-formed, title without prefix, refers to node_1 and to "",
    \* negative non-integer sequence (-1.5), negative timeNeeded
    Obj(NodeId(2), TitleStr(<<W(<<"B">>)>>), Arr(<<Line("b")>>),
        Arr(<<NodeId(1), Str("")>>), NumHalf(-2), Num(-2)),
    ElemNull,
    ElemPrimitive,
    \* id "X", a numeric title: title.match is not a function
    Obj(Str("X"), TitleNum(7), Arr(<<Line("x")>>), Arr(<<>>), Num(3), Num(1)),
    \* every field present with the wrong type; the id is the empty string
    Obj(Str(""), TitleStr(<<>>), NotArr, NotArr, Str("2"), Str("3")) }

RawArrays == UNION {[1..n -> RawElems] : n \in 0..MaxNodes}

NodesValues == {Arr(a) : a \in RawArrays} \cup {NotArr, NoNodes}

\* texts whose parsed value has the member "nodes"
NodesTexts == {
    <<"{", "V", "}">>,
    <<"x", " ", "{", " ", "V", "}", " ", "x">> }

\* texts that do not parse, or whose parsed value has no member "nodes"
OtherTexts == {
    <<" ">>,
    <<"x">>,
    <<"n">>,
    <<"{", "}">>,
    <<"{", "K", "{", "V", "}", "}">>,
    <<"x", "{", "x", "}">>,
    <<"{", "V", "}", "x", "{", "V", "}">>,
    <<"}", "x", "{">> }

NoContent == [t |-> "undef", text |-> <<>>]
Content(text) == [t |-> "str", text |-> text]

Resp(kind, status, message, content, nodes) ==
    [kind |-> kind, status |-> status, message |-> message,
     content |-> content, nodes |-> nodes]

NoResponse == Resp("none", 0, "", NoContent, NoNodes)

ErrorStatuses == {400, 401, 429, 500}

\* what axios.post can settle with
Responses ==
    {Resp("transport", 0, m, NoContent, NoNodes) :
        m \in {"timeout of 30000ms exceeded", ""}}
    \cup {Resp("http", st, "Request failed with status code", NoContent, NoNodes) :
        st \in ErrorStatuses}
    \cup {Resp("http", 200, "", c, NoNodes) :
        c \in {NoContent, Content(<<>>)} \cup {Content(t) : t \in OtherTexts}}
    \cup {Resp("http", 200, "", Content(t), v) :
        t \in NodesTexts, v \in NodesValues}

RandomDraws == [1..RandPeriod -> 1..5]

--------------------------------------------------------------------------
(* generateRoadmap: the actions *)

\* the catch block of lines 297-333
Catch(status, message, prompt, level) ==
    IF UseFallback(status, env.mode)
    THEN \E rnd \in RandomDraws :
            /\ pc' = "returned"
            /\ result' = createFallbackNodes(prompt, level, rnd)
            /\ fallbackCalled' = TRUE
            /\ error' = ""
    ELSE /\ pc' = "failed"
         /\ error' = UserMessage(status, message)
         /\ UNCHANGED <<result, fallbackCalled>>

\* generateRoadmap up to the await of axios.post (lines 115-187)
Invoke(prompt, level, roadmapType) ==
    /\ pc = "idle"
    /\ args' = [prompt |-> prompt, level |-> level, roadmapType |-> roadmapType]
    /\ IF BeforeRequest(prompt, env.apiKey) = "ok"
       THEN /\ pc' = "awaiting"
            /\ requests' = Append(requests, RequestBody(prompt, level))
            /\ UNCHANGED <<result, error, fallbackCalled>>
       ELSE /\ Catch(0, BeforeRequest(prompt, env.apiKey), prompt, level)
            /\ UNCHANGED requests
    /\ UNCHANGED <<env, response, roadmap>>
    /\ UNCHANGED valVars
    /\ UNCHANGED layVars
    /\ UNCHANGED dbVars

\* generateRoadmap from the settling of axios.post on (lines 189-333)
Answer(resp) ==
    /\ pc = "awaiting"
    /\ response' = resp
    /\ LET out == AfterRequest(resp) IN
        /\ roadmap' = out.raw
        /\ IF out.thrown
           THEN Catch(out.status, out.message, args.prompt, args.level)
           ELSE /\ pc' = "returned"
                /\ result' = out.nodes
                /\ error' = ""
                /\ UNCHANGED fallbackCalled
    /\ UNCHANGED <<env, args, requests>>
    /\ UNCHANGED valVars
    /\ UNCHANGED layVars
    /\ UNCHANGED dbVars

InitVal == vPrompt = <<>> /\ vVerdict = "pending"

InitLay == layTotal = 0 /\ layPositions = <<>>

InitDB ==
    /\ cached = [conn |-> 0, promise |-> 0]
    /\ attempts = <<>>
    /\ callers = <<>>
    /\ microtasks = <<>>

InitGen ==
    /\ pc = "idle"
    /\ env \in [apiKey : BOOLEAN, mode : Modes]
    /\ args = [prompt |-> <<>>, level |-> "", roadmapType |-> ""]
    /\ requests = <<>>
    /\ response = NoResponse
    /\ roadmap = <<>>
    /\ result = <<>>
    /\ error = ""
    /\ fallbackCalled = FALSE

Init == InitGen /\ InitVal /\ InitDB /\ InitLay

Next ==
    \/ \E prompt \in GenPrompts, level \in Levels, roadmapType \in RoadmapTypes :
        Invoke(prompt, level, roadmapType)
    \/ \E resp \in Responses : Answer(resp)

Spec == Init /\ [][Next]_vars

--------------------------------------------------------------------------
(* Properties of generateRoadmap, checked under Spec *)

\* generateRoadmap returned the repaired list of the service's answer
ServicePath == pc = "returned" /\ ~fallbackCalled

\* the service answered 200 with a text
HasText ==
    /\ pc \in {"returned", "failed"}
    /\ response.kind = "http"
    /\ response.status = 200
    /\ response.content.t = "str"
    /\ response.content.text # <<>>

ResponseText == trim(response.content.text)

\* the text parses as a whole, or its span from the first { to the last } does
Parses ==
    \/ JSONparse(ResponseText).ok
    \/ jsonMatch(ResponseText) # <<>> /\ JSONparse(jsonMatch(ResponseText)).ok

\* the parsed value has a nodes member that is a non-empty array
HasNodesArray ==
    /\ HasText
    /\ Parses
    /\ parsedResponse(ResponseText).hasNodes
    /\ response.nodes.t = "arr"
    /\ Len(response.nodes.a) > 0

\* C1: on the service path the returned list carries the sequence values
\* exactly 1..N, N the number of raw elements: each integer of 1..N is the
\* sequence of exactly one returned node.
C1_SequencesAreOneToN ==
    ServicePath =>
        /\ Len(result) = Len(roadmap)
        /\ \A k \in 1..Len(roadmap) :
            Cardinality({i \in 1..Len(result) : result[i].sequence = Num(k)}) = 1

\* C1 witness: a returned list of three nodes whose raw sequences were
\* negative and non-integer, gapped, and duplicated
C1_Witness ==
    /\ ServicePath
    /\ Len(roadmap) = 3
    /\ \E i, j, k \in 1..3 :
        /\ i # j
        /\ roadmap[i].sequence = NumHalf(-2)
        /\ roadmap[j].sequence = Num(7)
        /\ roadmap[k] = roadmap[j]
        /\ k # j

\* C2: on the service path every entry of every returned node's children is
\* the id of some node of the returned list.
C2_NoDanglingChild ==
    ServicePath =>
        \A i \in 1..Len(result) : \A j \in 1..Len(result[i].children) :
            \E m \in 1..Len(result) : result[m].id = result[i].children[j]

\* C3: on the service path no two nodes of the returned list have the same id.
C3_UniqueIds ==
    ServicePath =>
        \A i, j \in 1..Len(result) : result[i].id = result[j].id => i = j

\* C4: when validatePrompt rejects the prompt, generateRoadmap fails with the
\* validator's message and no request has been handed to axios.post.
C4_RejectedPromptSendsNothing ==
    (pc # "idle" /\ validatePrompt(args.prompt) # "ok") =>
        /\ pc = "failed"
        /\ error = validatePrompt(args.prompt)
        /\ requests = <<>>
        /\ response = NoResponse
        /\ ~fallbackCalled

\* C4 witness: a blocklisted prompt rejected while the API key is missing too
C4_Witness ==
    /\ pc = "failed"
    /\ error = KeywordMsg
    /\ ~env.apiKey
    /\ requests = <<>>

\* C6: the service path never returns an empty list: a text that neither
\* parses as a whole nor has a parsable span from its first { to its last }
\* fails with the parse error; a parsed value with no nodes member, a
\* non-array nodes or an empty nodes array fails with a format error.
C6_NeverEmpty ==
    /\ ServicePath => Len(result) > 0
    /\ (HasText /\ ~Parses) => (pc = "failed" /\ error = ParseErrorMsg)
    /\ (HasText /\ Parses /\ ~HasNodesArray) =>
        (pc = "failed" /\ error \in {FormatErrorMsg, EmptyNodesMsg})

\* C6 witness: the text has a span from a { to a later } that does not parse,
\* and the call failed with the parse error
C6_Witness ==
    /\ HasText
    /\ jsonMatch(ResponseText) # <<>>
    /\ ~Parses
    /\ pc = "failed"
    /\ error = ParseErrorMsg

\* the node the catch branch emits for position i (1-based), as the claim
\* states it
IsDefaultFor(node, i) ==
    /\ node.id = NodeId(i)
    /\ node.timeNeeded = Num(1)
    /\ node.children = <<>>

\* C7: once the parsed response has a non-empty nodes array of N elements,
\* generateRoadmap returns N nodes; an element whose processing throws is
\* replaced, at its position, by the default node (id node_<i+1>, sequence
\* i+1, timeNeeded 1, no children), which is in the returned list.
C7_PerElementFailuresAbsorbed ==
    HasNodesArray =>
        /\ pc = "returned"
        /\ error = ""
        /\ Len(result) = Len(response.nodes.a)
        /\ Len(processedNodes(roadmap)) = Len(roadmap)
        /\ \A i \in 1..Len(roadmap) :
            ProcessThrows(roadmap[i], roadmap) =>
                /\ IsDefaultFor(processedNodes(roadmap)[i], i)
                /\ processedNodes(roadmap)[i].sequence = Num(i)
                /\ \E m \in 1..Len(result) : IsDefaultFor(result[m], i)

\* C7 witness: three elements, one null, one with a numeric title, one that
\* is processed without throwing
C7_Witness ==
    /\ HasNodesArray
    /\ pc = "returned"
    /\ Len(roadmap) = 3
    /\ \E i, j, k \in 1..3 :
        /\ roadmap[i].t = "null"
        /\ roadmap[j].t = "obj" /\ roadmap[j].title.t = "num"
        /\ ~ProcessThrows(roadmap[k], roadmap)

\* C8: when the service answers with status 429, generateRoadmap fails with
\* the rate-limit message, in every mode.
C8_RateLimitMessage ==
    (pc \in {"returned", "failed"} /\ response.kind = "http" /\ response.status = 429)
        => (pc = "failed" /\ error = RateLimitMsg)

\* C8 witness: a 429 in development mode
C8_Witness ==
    /\ pc = "failed"
    /\ response.status = 429
    /\ env.mode = "development"
    /\ error = RateLimitMsg

\* C9: createFallbackNodes runs only after a 400 in development mode; a 400
\* in any other mode fails with the bad-request message; no other failure
\* produces the fallback.
C9_FallbackOnlyDev400 ==
    /\ fallbackCalled =>
        (response.kind = "http" /\ response.status = 400 /\ env.mode = "development")
    /\ (pc \in {"returned", "failed"} /\ response.status = 400
            /\ env.mode # "development")
        => (pc = "failed" /\ error = BadRequestMsg)
    /\ pc = "failed" => ~fallbackCalled

\* C9 witness: a 400 in production failed with the bad-request message
C9_Witness ==
    /\ pc = "failed"
    /\ response.status = 400
    /\ env.mode = "production"
    /\ error = BadRequestMsg
    /\ ~fallbackCalled

--------------------------------------------------------------------------
(* validatePrompt on its own: SpecValidate *)

MaxPad == 1

UpperChar(c) ==
    IF \E i \in 1..Len(Lowers) : Lowers[i] = c
    THEN Uppers[CHOOSE i \in 1..Len(Lowers) : Lowers[i] = c]
    ELSE c

\* a keyword in lower case, in upper case, or with every other letter capital
CaseVariants(kw) == {
    kw,
    [i \in 1..Len(kw) |-> UpperChar(kw[i])],
    [i \in 1..Len(kw) |-> IF i % 2 = 1 THEN UpperChar(kw[i]) ELSE kw[i]] }

\* the middles of the prompts tried: harmless texts, and every keyword in
\* three letter cases, alone and inside a word
PromptCores ==
    { <<>>, <<"a", "b">>, <<"I_DOT", "a">>, <<"a", " ", "b">>,
      <<"l","e","a","r","n"," ","G","o">> }
    \cup UNION {CaseVariants(invalidKeywords[i]) : i \in 1..Len(invalidKeywords)}
    \cup {<<"a">> \o v \o <<"z">> :
            v \in UNION {CaseVariants(invalidKeywords[i]) :
                            i \in 1..Len(invalidKeywords)}}

\* core, lengthened with the letter q to MaxPromptLen + d characters
FilledTo(core, d) == core \o Repeat("q", MaxPromptLen + d - Len(core))

\* the prompts tried: a core, as it is or lengthened to 199, 200 or 201
\* characters, between 0..MaxPad blanks on either side
Prompts ==
    { Repeat(" ", l) \o body \o Repeat(" ", r) :
        l \in 0..MaxPad, r \in 0..MaxPad,
        body \in PromptCores
                 \cup {FilledTo(core, d) : core \in PromptCores, d \in {-1, 0, 1}} }

\* one call of validatePrompt
Validate ==
    /\ vVerdict = "pending"
    /\ vVerdict' = validatePrompt(vPrompt)
    /\ UNCHANGED vPrompt
    /\ UNCHANGED genVars
    /\ UNCHANGED dbVars
    /\ UNCHANGED layVars

InitGenIdle ==
    /\ pc = "idle"
    /\ env = [apiKey |-> TRUE, mode |-> "production"]
    /\ args = [prompt |-> <<>>, level |-> "", roadmapType |-> ""]
    /\ requests = <<>>
    /\ response = NoResponse
    /\ roadmap = <<>>
    /\ result = <<>>
    /\ error = ""
    /\ fallbackCalled = FALSE

InitValidate ==
    /\ vPrompt \in Prompts
    /\ vVerdict = "pending"
    /\ InitGenIdle
    /\ InitDB
    /\ InitLay

NextValidate == Validate

SpecValidate == InitValidate /\ [][NextValidate]_vars

\* the prompt contains the keyword in some letter case
ContainsAnyCase(prompt, kw) ==
    \E i \in 0..(Len(prompt) - Len(kw)) :
        \A j \in 1..Len(kw) :
            prompt[i + j] = kw[j] \/ prompt[i + j] = UpperChar(kw[j])

ContainsKeywordAnyCase(prompt) ==
    \E i \in 1..Len(invalidKeywords) : ContainsAnyCase(prompt, invalidKeywords[i])

--------------------------------------------------------------------------
(* connectDB: SpecDB *)

(* Scheduling.  connectDB is called from request handlers: a call runs as   *)
(* part of a task that starts with the microtask queue empty.  mongoose's   *)
(* promise settles in a task of its own; the continuations of the callers   *)
(* awaiting it are then queued as promise jobs, in the order of their       *)
(* awaits, and run to completion before the next task starts.               *)

MaxCallers == 5
MaxAttempts == 3

InFlight == {a \in 1..Len(attempts) : attempts[a].state = "pending"}

\* line 39 with the test dropped: every call without a connection connects
NeedsAttemptAlways == TRUE

\* line 39: !cached.promise
NeedsAttempt == cached.promise = 0

\* connectDB up to its await (lines 34-54): a new invocation, caller c
Call ==
    /\ microtasks = <<>>
    /\ Len(callers) < MaxCallers
    /\ LET c == Len(callers) + 1 IN
       IF cached.conn # 0
       THEN /\ callers' = Append(callers, [pc |-> "returned", on |-> 0])
            /\ UNCHANGED <<cached, attempts, microtasks>>
       ELSE /\ NeedsAttempt => Len(attempts) < MaxAttempts
            /\ LET p == IF NeedsAttempt THEN Len(attempts) + 1 ELSE cached.promise
                   started == IF NeedsAttempt
                              THEN Append(attempts, [state |-> "pending", reactions |-> <<>>])
                              ELSE attempts
               IN /\ cached' = [cached EXCEPT !.promise = p]
                  /\ IF started[p].state = "pending"
                     THEN /\ attempts' = [started EXCEPT ![p].reactions = Append(@, c)]
                          /\ callers' = Append(callers, [pc |-> "awaiting", on |-> p])
                          /\ UNCHANGED microtasks
                     ELSE /\ attempts' = started
                          /\ callers' = Append(callers, [pc |-> "queued", on |-> p])
                          /\ microtasks' = Append(microtasks, c)
    /\ UNCHANGED valVars
    /\ UNCHANGED layVars
    /\ UNCHANGED genVars

\* mongoose.connect(...).then(...) settles: the awaiting callers are queued
Settle(a, outcome) ==
    /\ microtasks = <<>>
    /\ a \in InFlight
    /\ attempts' = [attempts EXCEPT ![a] = [state |-> outcome, reactions |-> <<>>]]
    /\ microtasks' = attempts[a].reactions
    /\ callers' = [c \in 1..Len(callers) |->
                    IF callers[c].pc = "awaiting" /\ callers[c].on = a
                    THEN [callers[c] EXCEPT !.pc = "queued"] ELSE callers[c]]
    /\ UNCHANGED cached
    /\ UNCHANGED valVars
    /\ UNCHANGED layVars
    /\ UNCHANGED genVars

\* lines 54-60 with line 57 dropped: the catch block rethrows without
\* clearing cached.promise
ResumeNoClear ==
    /\ microtasks # <<>>
    /\ LET c == Head(microtasks)
           a == callers[c].on
       IN IF attempts[a].state = "resolved"
          THEN /\ cached' = [cached EXCEPT !.conn = a]
               /\ callers' = [callers EXCEPT ![c].pc = "returned"]
          ELSE /\ UNCHANGED cached
               /\ callers' = [callers EXCEPT ![c].pc = "threw"]
    /\ microtasks' = Tail(microtasks)
    /\ UNCHANGED attempts
    /\ UNCHANGED valVars
    /\ UNCHANGED layVars
    /\ UNCHANGED genVars

\* connectDB after its await (lines 54-60), for the caller at the head of
\* the microtask queue
Resume ==
    /\ microtasks # <<>>
    /\ LET c == Head(microtasks)
           a == callers[c].on
       IN IF attempts[a].state = "resolved"
          THEN /\ cached' = [cached EXCEPT !.conn = a]
               /\ callers' = [callers EXCEPT ![c].pc = "returned"]
          ELSE /\ cached' = [cached EXCEPT !.promise = 0]
               /\ callers' = [callers EXCEPT ![c].pc = "threw"]
    /\ microtasks' = Tail(microtasks)
    /\ UNCHANGED attempts
    /\ UNCHANGED valVars
    /\ UNCHANGED layVars
    /\ UNCHANGED genVars

InitConnect == InitDB /\ InitGenIdle /\ InitVal /\ InitLay

NextDB ==
    \/ Call
    \/ \E a \in 1..Len(attempts), outcome \in {"resolved", "rejected"} :
        Settle(a, outcome)
    \/ Resume

SpecDB == InitConnect /\ [][NextDB]_vars

\* C10: at most one connection attempt is in flight at any time, and the
\* callers waiting while no connection is established all await that attempt.
C10_OneAttemptInFlight ==
    /\ Cardinality(InFlight) <= 1
    /\ \A c \in 1..Len(callers) :
        callers[c].pc = "awaiting" => callers[c].on \in InFlight

\* C10 witness: after a failed attempt, a second attempt is in flight with
\* two callers awaiting it
C10_Witness ==
    /\ Len(attempts) = 2
    /\ attempts[1].state = "rejected"
    /\ InFlight = {2}
    /\ Len(attempts[2].reactions) = 2

\* the failure of every settled attempt has been delivered
Delivered == microtasks = <<>>

\* C11: after a connection attempt fails, each caller that awaited it gets
\* the failure, the memoized promise is cleared (the cache holds no rejected
\* promise once the failure has been delivered), and the next call made
\* without a connection starts a fresh attempt.
C11_FailureClearsMemo ==
    /\ [](Delivered =>
            /\ cached.promise # 0 => attempts[cached.promise].state # "rejected"
            /\ \A c \in 1..Len(callers) :
                (callers[c].on # 0 /\ attempts[callers[c].on].state = "rejected")
                    => callers[c].pc = "threw")
    /\ [][(Len(callers') = Len(callers) + 1 /\ cached.conn = 0 /\ InFlight = {})
            => /\ Len(attempts') = Len(attempts) + 1
               /\ attempts'[Len(attempts')].state = "pending"
               /\ callers'[Len(callers')].on = Len(attempts')
               /\ callers'[Len(callers')].pc = "awaiting"]_vars

\* C11 witness: the first attempt failed, both callers that awaited it threw,
\* and a later caller awaits a second, pending attempt
C11_Witness ==
    /\ Len(attempts) = 2
    /\ attempts[1].state = "rejected"
    /\ Len(callers) = 3
    /\ callers[1].pc = "threw" /\ callers[1].on = 1
    /\ callers[2].pc = "threw" /\ callers[2].on = 1
    /\ callers[3].pc = "awaiting" /\ callers[3].on = 2
    /\ cached.promise = 2
    /\ attempts[2].state = "pending"

--------------------------------------------------------------------------
(* Two invocations of generateRoadmap: SpecInstruction *)

\* a second call of generateRoadmap up to its await (lines 115-187), made
\* while the first awaits, with the same prompt and level and the other
\* roadmapType
InvokeAgain(roadmapType) ==
    /\ pc = "awaiting"
    /\ Len(requests) = 1
    /\ roadmapType # args.roadmapType
    /\ BeforeRequest(args.prompt, env.apiKey) = "ok"
    /\ args' = [args EXCEPT !.roadmapType = roadmapType]
    /\ requests' = Append(requests, RequestBody(args.prompt, args.level))
    /\ UNCHANGED <<pc, env, response, roadmap, result, error, fallbackCalled>>
    /\ UNCHANGED valVars
    /\ UNCHANGED layVars
    /\ UNCHANGED dbVars

NextInstruction ==
    \/ \E prompt \in GenPrompts, level \in Levels, roadmapType \in RoadmapTypes :
        Invoke(prompt, level, roadmapType)
    \/ \E roadmapType \in RoadmapTypes : InvokeAgain(roadmapType)

SpecInstruction == Init /\ [][NextInstruction]_vars

\* C12: the user instruction embeds topic, level and style: two invocations
\* that differ only in roadmapType send different instructions.
C12_InstructionEmbedsStyle ==
    Len(requests) = 2 => requests[1].user # requests[2].user

--------------------------------------------------------------------------
(* Further properties of generateRoadmap, checked under Spec *)

\* the raw element is repaired by lines 245-271 without throwing
Repaired(i) == ~ProcessThrows(roadmap[i], roadmap)

\* typeof node.timeNeeded === 'number', for the raw element i
HasNumericTime(i) == roadmap[i].t = "obj" /\ roadmap[i].timeNeeded.t = "num"

\* C13: every returned node has a non-negative numeric timeNeeded: a raw
\* timeNeeded that is not a number becomes 0, and no returned node carries a
\* negative timeNeeded.
C13_TimeNeededNonNegative ==
    ServicePath =>
        /\ \A i \in 1..Len(roadmap) :
            (Repaired(i) /\ ~HasNumericTime(i))
                => processedNodes(roadmap)[i].timeNeeded = Num(0)
        /\ \A m \in 1..Len(result) :
            /\ result[m].timeNeeded.t = "num"
            /\ ~Less(result[m].timeNeeded, Num(0))

\* the ids of the next two nodes after node k of n, clipped at the end
NextTwo(k, n) == [j \in 1..Min(2, n - k) |-> NodeId(k + j)]

\* C14: createFallbackNodes returns nodeCount nodes (8, 12 or 15 by level)
\* with ids node_1..node_nodeCount, and the children of node k are exactly
\* the ids of the next two nodes, clipped at the end of the array.
C14_FallbackChildrenNextTwo ==
    fallbackCalled =>
        /\ Len(result) = (IF args.level = "beginner" THEN 8
                          ELSE IF args.level = "intermediate" THEN 12 ELSE 15)
        /\ \A k \in 1..Len(result) :
            /\ result[k].id = NodeId(k)
            /\ result[k].children = NextTwo(k, Len(result))

\* the raw element e is well-formed: a non-empty string id, a non-empty string
\* title, a non-empty array description, an array children, a numeric
\* sequence and a numeric timeNeeded
WellFormed(e) ==
    /\ e.t = "obj"
    /\ e.id.t = "str" /\ Truthy(e.id)
    /\ e.title.t = "str" /\ e.title.tok # <<>>
    /\ e.description.t = "arr" /\ e.description.a # <<>>
    /\ e.children.t = "arr"
    /\ e.sequence.t = "num"
    /\ e.timeNeeded.t = "num"

\* C16: every well-formed raw element is emitted with its own id, description
\* and timeNeeded, whatever the other elements of the nodes array are.
C16_WellFormedElementKept ==
    ServicePath =>
        \A i \in 1..Len(roadmap) :
            WellFormed(roadmap[i]) =>
                \E m \in 1..Len(result) :
                    /\ result[m].id = roadmap[i].id
                    /\ result[m].description = roadmap[i].description.a
                    /\ result[m].timeNeeded = roadmap[i].timeNeeded

--------------------------------------------------------------------------
(* calculateNodePosition on its own: SpecLayout *)

MaxTotal == 16

\* the next index of a list of layTotal nodes is laid out, as the loops of
\* lines 242-254 and 341-355 do
Place ==
    /\ Len(layPositions) < layTotal
    /\ layPositions' =
        Append(layPositions, calculateNodePosition(Len(layPositions), layTotal))
    /\ UNCHANGED layTotal
    /\ UNCHANGED valVars
    /\ UNCHANGED genVars
    /\ UNCHANGED dbVars

InitLayout ==
    /\ layTotal \in 1..MaxTotal
    /\ layPositions = <<>>
    /\ InitGenIdle
    /\ InitVal
    /\ InitDB

NextLayout == Place

SpecLayout == InitLayout /\ [][NextLayout]_vars

\* a < b for fractions with positive denominators
FracLess(a, b) == a.num * b.den < b.num * a.den

\* the heap level of index i
LevelOf(i) == Log2Floor(i + 1)

\* C15: the indices laid out so far have pairwise distinct coordinates:
\* indices on different levels have different y, and within one level x is
\* strictly increasing in the position in the level.
C15_DistinctPositions ==
    \A i, j \in 1..Len(layPositions) :
        i < j =>
            /\ layPositions[i] # layPositions[j]
            /\ LevelOf(i - 1) # LevelOf(j - 1)
                => layPositions[i].y # layPositions[j].y
            /\ LevelOf(i - 1) = LevelOf(j - 1)
                => /\ layPositions[i].y = layPositions[j].y
                   /\ FracLess(layPositions[i].x, layPositions[j].x)

\* C15 witness: twelve nodes all laid out, the last level holding five of
\* its eight places, on both sides of the middle
C15_Witness ==
    /\ layTotal = 12
    /\ Len(layPositions) = 12
    /\ FracLess(layPositions[8].x, layPositions[9].x)
    /\ FracLess(layPositions[11].x, layPositions[12].x)

====
